---- MODULE Spec2Model ----
(***************************************************************************)
(* Model of the connector daemon's per-connection engine                   *)
(* (src/connector/main.go): one accepted connection with its two command   *)
(* channels, the goroutines handleConn (inbound loop plus the writer it    *)
(* spawns) and handleCmd (session loop plus the two outputReader           *)
(* goroutines and the exit-waiter goroutine it spawns), and the child      *)
(* process behind its three pipes.                                         *)
(*                                                                         *)
(* Channel naming.  main() makes two unbuffered channels and passes them   *)
(* crosswise (lines 175-178), so the channel handleCmd calls cmdOut is the *)
(* one the writer of handleConn receives from (here: the session channel,  *)
(* closed flag sessChClosed), and the channel handleConn calls cmdOut is   *)
(* the one handleCmd receives from (here: the decode channel, closed flag  *)
(* decodeChClosed).                                                        *)
(***************************************************************************)
EXTENDS Integers, Sequences, FiniteSets, TLC

\* ------------------------------------------------------------------ bounds
MaxLines == 3        \* lines the peer sends on the connection
MaxChunks == 2       \* chunks the child writes to its standard output and error
MaxOthers == 2       \* further connections served beside this one

\* --------------------------------------------------------- small value sets
Data == 0 .. MaxLines               \* payloads: a line carries its own number
Paths == {"cfg1", "cfg2"}           \* paths writeRcloneConfig may return
ExitCodes == {0, 2}                 \* exit codes of the child
Relays == {"stdout", "stderr"}      \* the two outputReader goroutines

\* the protocol version and command names of package protocol
Version == "v1"
Versions == {"v1", "v2"}
InitKodoFsMountCmdName == "initKodoFsMountCmd"
InitKodoMountCmdName == "initKodoMountCmd"
RequestDataCmdName == "requestDataCmd"
CmdNames == {InitKodoFsMountCmdName, InitKodoMountCmdName, RequestDataCmdName, "bogusCmd"}

NoCmd == [type |-> "none", data |-> 0]
NoPath == ""

\* One line of input as the scanner hands it to the decoder: whether it
\* parses as an envelope, and the envelope's version, command name and
\* payload.  Fields the decoder never gets to look at are left out of the
\* enumeration (a line that is no envelope has no version to vary).
\* The k-th line's payload data is k, so that the order of the data written
\* to the child can be read off.
AllLines == [envelopeOk : BOOLEAN, version : Versions, cmd : CmdNames,
             payloadOk : BOOLEAN, data : Data]
Lines(k) ==
    {l \in AllLines :
        /\ l.data = k
        /\ (~l.envelopeOk => l.version = Version /\ l.cmd = "bogusCmd")
        /\ (l.version # Version => l.cmd = "bogusCmd")
        /\ (l.cmd = "bogusCmd" => ~l.payloadOk)}

VARIABLES
    \* handleConn, inbound loop
    connPc,          \* "scan" | "send" | "wait" (in the deferred wg.Wait())
    pending,         \* the decoded command handleConn is sending on the decode channel
    nlines,          \* lines read so far
    connCause,       \* why the inbound loop returned: "none" | "protocol" | "readend"
    decodeChClosed,  \* close(cmdOut) of handleConn has run
    connCtxDone,     \* cancel() of handleConn has run
    \* handleConn, writer goroutine
    writerPc,        \* "select" | "done"
    sockClosed,      \* conn.Close() has run
    emitted,         \* events the writer received from the session channel, in order
    busyPolled,      \* the writer has received from the closed session channel
    \* handleCmd
    cmdPc,           \* "select" | "setClosed" | "closeStdio" | "closeOut" | "done"
    retCause,        \* why handleCmd returned
    isClosed,        \* the atomic closed flag, 0 or 1
    execCmd,         \* "nil" | "set"
    rcloneConfigPath,
    afterRun,        \* "none" | "nil" | "remove": the afterRun closure of the waiter
    stdin, stdout, stderr,   \* "nil" | "open" | "closed"
    ctxCancelled,    \* cancel() of handleCmd's context has run
    sessChClosed,    \* close(cmdOut) of handleCmd has run
    stdinWritten,    \* data written to the child's standard input, in order
    files,           \* rclone config files that exist
    \* child process
    childState,      \* "none" | "running" | "exited" | "failed"
    exitCode,
    started,         \* processes started
    nOut, nErr,      \* chunks the child has written to stdout / stderr
    stdoutBuf,       \* unread chunks in the stdout pipe
    \* goroutines of the session
    waiterPc,        \* "none" | "run" | "wait" | "send" | "done"
    relayPc,         \* per relay: "none" | "read" | "send" | "done"
    relayBuf,        \* per relay: the chunk it holds
    panicked,        \* a goroutine panicked (send on a closed channel)
    \* the daemon around this connection
    acceptLoop,      \* "accepting" | "dead": main's loop around Accept
    others           \* further connections accepted and being served

connVars == <<connPc, pending, nlines, connCause, decodeChClosed, connCtxDone>>
writerVars == <<writerPc, sockClosed, emitted, busyPolled>>
sessVars == <<cmdPc, retCause, isClosed, execCmd, rcloneConfigPath, afterRun,
              stdin, stdout, stderr, ctxCancelled, sessChClosed, stdinWritten,
              files>>
childVars == <<childState, exitCode, started, nOut, nErr, stdoutBuf>>
goVars == <<waiterPc, relayPc, relayBuf, panicked>>
srvVars == <<acceptLoop, others>>
vars == <<connVars, writerVars, sessVars, childVars, goVars, srvVars>>

Alive == ~panicked

\* A send on a closed channel panics; no goroutine recovers, so the runtime
\* ends the process: main's accept loop and the goroutines of every other
\* connection are gone with it.
Panics(p) ==
    /\ panicked' = p
    /\ IF p THEN acceptLoop' = "dead" /\ others' = 0
            ELSE UNCHANGED srvVars

\* ------------------------------------------------------------------- Init
Init ==
    /\ connPc = "scan" /\ pending = NoCmd /\ nlines = 0
    /\ connCause = "none" /\ decodeChClosed = FALSE /\ connCtxDone = FALSE
    /\ writerPc = "select" /\ sockClosed = FALSE
    /\ emitted = <<>> /\ busyPolled = FALSE
    /\ cmdPc = "select" /\ retCause = "none" /\ isClosed = 0 /\ execCmd = "nil"
    /\ rcloneConfigPath = NoPath /\ afterRun = "none"
    /\ stdin = "nil" /\ stdout = "nil" /\ stderr = "nil"
    /\ ctxCancelled = FALSE /\ sessChClosed = FALSE /\ stdinWritten = <<>>
    /\ files = {}
    /\ childState = "none" /\ exitCode = -1 /\ started = 0
    /\ nOut = 0 /\ nErr = 0 /\ stdoutBuf = <<>>
    /\ waiterPc = "none"
    /\ relayPc = [r \in Relays |-> "none"]
    /\ relayBuf = [r \in Relays |-> 0]
    /\ panicked = FALSE
    /\ acceptLoop = "accepting" /\ others = 0

\* ------------------------------------------------------ handleConn: decode
\* json.Unmarshal of the envelope, the version test, the switch on request.Cmd
\* and json.Unmarshal of the payload into the command's type.
DecodeError == [ok |-> FALSE, cmd |-> NoCmd]
Decode(line) ==
    IF ~line.envelopeOk THEN DecodeError
    ELSE IF line.version # Version THEN DecodeError
    ELSE IF line.cmd \in {InitKodoFsMountCmdName, InitKodoMountCmdName, RequestDataCmdName}
         THEN IF ~line.payloadOk THEN DecodeError
              ELSE [ok |-> TRUE,
                    cmd |-> [type |-> line.cmd,
                             data |-> IF line.cmd = RequestDataCmdName
                                      THEN line.data ELSE 0]]
    ELSE DecodeError

\* ------------------------------------------------ handleConn: inbound loop
\* The return statements of handleConn run its deferred calls in the order
\* close(cmdOut), cancel(), wg.Wait().  The first two never block and are
\* taken in the step that returns; connPc = "wait" is wg.Wait(), which
\* returns once the writer has run wg.Done().
ConnReturn(cause) ==
    /\ connCause' = cause
    /\ decodeChClosed' = TRUE
    /\ connCtxDone' = TRUE
    /\ connPc' = "wait"

\* scanner.Scan() returned a line: decode it, then either return or go on to
\* send the command to handleCmd.
ConnReadLine ==
    /\ Alive /\ connPc = "scan" /\ nlines < MaxLines
    /\ \E line \in Lines(nlines + 1) :
          LET d == Decode(line) IN
          /\ nlines' = nlines + 1
          /\ IF d.ok
             THEN /\ connPc' = "send" /\ pending' = d.cmd
                  /\ UNCHANGED <<connCause, decodeChClosed, connCtxDone>>
             ELSE /\ ConnReturn("protocol")
                  /\ UNCHANGED pending
    /\ UNCHANGED <<writerVars, sessVars, childVars, goVars, srvVars>>

\* scanner.Scan() returned false: end of input, or a read error (among them
\* the deadline main() sets on the connection).
ConnReadEnd ==
    /\ Alive /\ connPc = "scan"
    /\ ConnReturn("readend")
    /\ UNCHANGED <<pending, nlines, writerVars, sessVars, childVars, goVars, srvVars>>

\* handleConn has returned: wg.Wait() is over
HandleConnReturned == connPc = "wait" /\ writerPc = "done"

\* ------------------------------------------------- handleConn: the writer
ResponseDataCmd(d, e) == [type |-> "ResponseDataCmd", data |-> d, isError |-> e]
TerminateCmd(c) == [type |-> "TerminateCmd", code |-> c]

\* the isError argument the outputReader goroutine r is started with
RelayIsError(r) == FALSE

\* (mutant) the TerminateCmd tells only whether Run returned an error
TerminateCode_ErrFlag == IF childState = "exited" /\ exitCode = 0 THEN 0 ELSE 1

\* ExitCode() of execCmd.ProcessState: -1 while there is no process state
TerminateCode == IF childState = "exited" THEN exitCode ELSE -1

\* case cmd := <-cmdIn, the sender being outputReader r; the event is
\* marshalled and written to the connection.
WriterRecvResponse(r) ==
    /\ Alive /\ writerPc = "select" /\ ~sessChClosed
    /\ relayPc[r] = "send"
    /\ emitted' = Append(emitted, ResponseDataCmd(relayBuf[r], RelayIsError(r)))
    /\ relayPc' = [relayPc EXCEPT ![r] = "read"]
    /\ UNCHANGED <<connVars, writerPc, sockClosed, busyPolled, sessVars,
                   childVars, waiterPc, relayBuf, panicked, srvVars>>

\* case cmd := <-cmdIn, the sender being the exit waiter, which then logs
\* and returns, running its defer cancel()
WriterRecvTerminate ==
    /\ Alive /\ writerPc = "select" /\ ~sessChClosed
    /\ waiterPc = "send"
    /\ emitted' = Append(emitted, TerminateCmd(TerminateCode))
    /\ waiterPc' = "done"
    /\ ctxCancelled' = TRUE
    /\ UNCHANGED <<connVars, writerPc, sockClosed, busyPolled, cmdPc, retCause, isClosed,
                   execCmd, rcloneConfigPath, afterRun, stdin, stdout, stderr,
                   sessChClosed, stdinWritten, files, childVars,
                   relayPc, relayBuf, panicked, srvVars>>

\* case cmd := <-cmdIn on the closed channel: the receive yields nil at once,
\* the type switch matches nothing and the loop selects again.
WriterRecvClosed ==
    /\ Alive /\ writerPc = "select" /\ sessChClosed
    /\ busyPolled' = TRUE
    /\ UNCHANGED <<connVars, writerPc, sockClosed, emitted, sessVars, childVars,
                   goVars, srvVars>>

\* a variant that closes the connection on ctx.Done() and selects again
WriterAfterClose_Loops == "select"
\* case <-ctx.Done(): return
WriterAfterClose == "done"

\* case <-ctx.Done(): return, running defer conn.Close() and defer wg.Done()
WriterCtxDone ==
    /\ Alive /\ writerPc = "select" /\ connCtxDone
    /\ writerPc' = WriterAfterClose /\ sockClosed' = TRUE
    /\ UNCHANGED <<connVars, emitted, busyPolled, sessVars, childVars, goVars,
                   srvVars>>

\* ------------------------------------------------------------- handleCmd
\* a return statement of handleCmd: the deferred calls run next
Return(cause) == cmdPc' = "setClosed" /\ retCause' = cause

\* (mutant) execCommand without its duplicate test
DupInit_Never == FALSE

\* execCommand's test `execCmd != nil`
DupInit == execCmd # "nil"

PipeFails == {"none", "stdin", "stdout", "stderr"}

\* execCommand(ec, afterRun): the duplicate test, the three pipes (pf names
\* the one whose creation fails), the two outputReader goroutines and the
\* exit-waiter goroutine.
ExecCommand(closure, pf) ==
    IF DupInit
    THEN /\ Return("dup")
         /\ UNCHANGED <<execCmd, stdin, stdout, stderr, afterRun, waiterPc, relayPc>>
    ELSE /\ execCmd' = "set"
         /\ stdin' = IF pf = "stdin" THEN "nil" ELSE "open"
         /\ stdout' = IF pf = "stdin" THEN stdout
                      ELSE IF pf = "stdout" THEN "nil" ELSE "open"
         /\ stderr' = IF pf \in {"stdin", "stdout"} THEN stderr
                      ELSE IF pf = "stderr" THEN "nil" ELSE "open"
         /\ relayPc' = [r \in Relays |->
                          IF r = "stdout" /\ pf \in {"none", "stderr"} THEN "read"
                          ELSE IF r = "stderr" /\ pf = "none" THEN "read"
                          ELSE relayPc[r]]
         /\ IF pf = "none"
            THEN /\ waiterPc' = "run" /\ afterRun' = closure
                 /\ UNCHANGED <<cmdPc, retCause>>
            ELSE /\ Return("pipefail")
                 /\ UNCHANGED <<waiterPc, afterRun>>

\* what writeRcloneConfig(c) returns: an error, or the path of the config
\* file it has written
WriteRcloneConfigResults == {"err"} \cup Paths

\* case cmd, ok := <-cmdIn with an *InitKodoFSMountCmd
RecvInitKodoFS ==
    /\ Alive /\ cmdPc = "select" /\ connPc = "send"
    /\ pending.type = InitKodoFsMountCmdName
    /\ connPc' = "scan" /\ pending' = NoCmd
    /\ \E pf \in PipeFails : ExecCommand("nil", pf)
    /\ UNCHANGED <<nlines, connCause, decodeChClosed, connCtxDone,
                   writerVars, isClosed, rcloneConfigPath, ctxCancelled,
                   sessChClosed, stdinWritten, files, childVars, relayBuf, panicked, srvVars>>

\* case cmd, ok := <-cmdIn with an *InitKodoMountCmd: the config file is
\* written before execCommand tests for a duplicate
RecvInitKodo ==
    /\ Alive /\ cmdPc = "select" /\ connPc = "send"
    /\ pending.type = InitKodoMountCmdName
    /\ connPc' = "scan" /\ pending' = NoCmd
    /\ \E res \in WriteRcloneConfigResults :
          IF res = "err"
          THEN /\ rcloneConfigPath' = NoPath
               /\ Return("cfgfail")
               /\ UNCHANGED <<files, execCmd, stdin, stdout, stderr, afterRun,
                              waiterPc, relayPc>>
          ELSE /\ rcloneConfigPath' = res
               /\ files' = files \cup {res}
               /\ \E pf \in PipeFails : ExecCommand("remove", pf)
    /\ UNCHANGED <<nlines, connCause, decodeChClosed, connCtxDone,
                   writerVars, isClosed, ctxCancelled, sessChClosed, stdinWritten,
                   childVars, relayBuf, panicked, srvVars>>

\* stdin.Write succeeds while the pipe is open and its read end is held
StdinWritable == stdin = "open" /\ childState \in {"none", "running"}

\* a variant that puts the new bytes in front of the earlier ones
StdinAfterWrite_Front(d) == <<d>> \o stdinWritten
\* stdin.Write([]byte(c.Data)): the bytes follow those written before
StdinAfterWrite(d) == Append(stdinWritten, d)

\* case cmd, ok := <-cmdIn with a *RequestDataCmd
RecvRequestData ==
    /\ Alive /\ cmdPc = "select" /\ connPc = "send"
    /\ pending.type = RequestDataCmdName
    /\ connPc' = "scan" /\ pending' = NoCmd
    /\ IF stdin = "nil"
       THEN Return("nostdin") /\ UNCHANGED stdinWritten
       ELSE IF StdinWritable
       THEN /\ stdinWritten' = StdinAfterWrite(pending.data)
            /\ UNCHANGED <<cmdPc, retCause>>
       ELSE Return("writefail") /\ UNCHANGED stdinWritten
    /\ UNCHANGED <<nlines, connCause, decodeChClosed, connCtxDone,
                   writerVars, isClosed, execCmd, rcloneConfigPath, afterRun,
                   stdin, stdout, stderr, ctxCancelled, sessChClosed, files,
                   childVars, goVars, srvVars>>

\* case cmd, ok := <-cmdIn with ok false: handleConn has closed the channel
RecvClosed ==
    /\ Alive /\ cmdPc = "select" /\ decodeChClosed
    /\ Return("chanclosed")
    /\ UNCHANGED <<connVars, writerVars, isClosed, execCmd, rcloneConfigPath,
                   afterRun, stdin, stdout, stderr, ctxCancelled, sessChClosed,
                   stdinWritten, files, childVars, goVars, srvVars>>

\* case <-ctx.Done()
RecvCtxDone ==
    /\ Alive /\ cmdPc = "select" /\ ctxCancelled
    /\ Return("ctx")
    /\ UNCHANGED <<connVars, writerVars, isClosed, execCmd, rcloneConfigPath,
                   afterRun, stdin, stdout, stderr, ctxCancelled, sessChClosed,
                   stdinWritten, files, childVars, goVars, srvVars>>

\* a variant of the deferred closure that leaves the flag as it is
ClosedFlagValue_Unset == isClosed
\* the value the deferred closure stores into isClosed
ClosedFlagValue == 1

\* deferred closure, first statement: atomic.StoreUint32(&isClosed, 1)
CmdSetClosed ==
    /\ Alive /\ cmdPc = "setClosed"
    /\ isClosed' = ClosedFlagValue /\ cmdPc' = "closeStdio"
    /\ UNCHANGED <<connVars, writerVars, retCause, execCmd, rcloneConfigPath,
                   afterRun, stdin, stdout, stderr, ctxCancelled, sessChClosed,
                   stdinWritten, files, childVars, goVars, srvVars>>

\* (mutant) the deferred closure leaves the handles as they are
CloseHandle_Skip(h) == h

CloseHandle(h) == IF h = "nil" THEN "nil" ELSE "closed"

\* deferred closure, rest: close each of stdin, stdout, stderr that is not nil
CmdCloseStdio ==
    /\ Alive /\ cmdPc = "closeStdio"
    /\ stdin' = CloseHandle(stdin)
    /\ stdout' = CloseHandle(stdout)
    /\ stderr' = CloseHandle(stderr)
    /\ cmdPc' = "closeOut"
    /\ UNCHANGED <<connVars, writerVars, retCause, isClosed, execCmd,
                   rcloneConfigPath, afterRun, ctxCancelled, sessChClosed,
                   stdinWritten, files, childVars, goVars, srvVars>>

\* a goroutine is at (or blocked in) its send on the session channel
SenderWaiting == waiterPc = "send" \/ \E r \in Relays : relayPc[r] = "send"

\* defer cancel(), then defer close(cmdOut): a goroutine sending on the
\* channel panics.  (The context is read by handleCmd's own select alone, so
\* the two deferred calls are one step.)
CmdCloseOut ==
    /\ Alive /\ cmdPc = "closeOut"
    /\ ctxCancelled' = TRUE
    /\ sessChClosed' = TRUE /\ cmdPc' = "done"
    /\ Panics(SenderWaiting)
    /\ UNCHANGED <<connVars, writerVars, retCause, isClosed, execCmd,
                   rcloneConfigPath, afterRun, stdin, stdout, stderr,
                   stdinWritten, files, childVars, waiterPc, relayPc, relayBuf>>

\* ------------------------------------------------------ the child process
\* the child writes a chunk to its standard output
ChildWriteStdout ==
    /\ Alive /\ childState = "running" /\ stdout = "open"
    /\ nOut + nErr < MaxChunks
    /\ nOut' = nOut + 1
    /\ stdoutBuf' = Append(stdoutBuf, nOut + 1)
    /\ UNCHANGED <<connVars, writerVars, sessVars, childState, exitCode, started,
                   nErr, goVars, srvVars>>

\* the child writes a chunk to its standard error; no goroutine reads that pipe
ChildWriteStderr ==
    /\ Alive /\ childState = "running" /\ stderr = "open"
    /\ nOut + nErr < MaxChunks
    /\ nErr' = nErr + 1
    /\ UNCHANGED <<connVars, writerVars, sessVars, childState, exitCode, started,
                   nOut, stdoutBuf, goVars, srvVars>>

\* the child terminates, of itself or killed
ChildExit ==
    /\ Alive /\ childState = "running"
    /\ childState' = "exited"
    /\ \E c \in ExitCodes : exitCode' = c
    /\ UNCHANGED <<connVars, writerVars, sessVars, started, nOut, nErr,
                   stdoutBuf, goVars, srvVars>>

\* ------------------------------------------- the exit-waiter goroutine
\* a variant in which the waiter skips the afterRun closure
FilesAfterRun_Kept == files
\* the files left after `if afterRun != nil { afterRun() }`, the closure
\* being func() { os.Remove(rcloneConfigPath) } over handleCmd's variable
FilesAfterRun == IF afterRun = "remove" THEN files \ {rcloneConfigPath} ELSE files

\* what follows execCmd.Run() in the waiter: afterRun(), then
\* `if atomic.LoadUint32(&isClosed) > 0 { return }` (with the waiter's
\* defer cancel(), which nothing can observe once handleCmd has set the
\* flag), then on to the send of the TerminateCmd (a send on the closed
\* channel panics)
WaiterAfterRun ==
    /\ files' = FilesAfterRun
    /\ IF isClosed > 0
       THEN waiterPc' = "done" /\ ctxCancelled' = TRUE /\ UNCHANGED <<panicked, srvVars>>
       ELSE waiterPc' = "send" /\ Panics(sessChClosed) /\ UNCHANGED ctxCancelled

\* execCmd.Run(), first half: the process starts, or Start fails and Run
\* returns at once, the pipes closed and no process state recorded
WaiterStart ==
    /\ Alive /\ waiterPc = "run"
    /\ \E ok \in BOOLEAN :
          IF ok
          THEN /\ childState' = "running" /\ started' = started + 1
               /\ waiterPc' = "wait"
               /\ UNCHANGED <<stdin, stdout, stderr, files, panicked, srvVars, ctxCancelled>>
          ELSE /\ childState' = "failed"
               /\ stdin' = "closed" /\ stdout' = "closed" /\ stderr' = "closed"
               /\ WaiterAfterRun
               /\ UNCHANGED started
    /\ UNCHANGED <<connVars, writerVars, cmdPc, retCause, isClosed, execCmd,
                   rcloneConfigPath, afterRun, sessChClosed,
                   stdinWritten, exitCode, nOut, nErr, stdoutBuf,
                   relayPc, relayBuf>>

\* execCmd.Run(), second half: Wait returns after the child's exit and closes
\* the parent's ends of the three pipes
WaiterRunReturns ==
    /\ Alive /\ waiterPc = "wait" /\ childState = "exited"
    /\ stdin' = "closed" /\ stdout' = "closed" /\ stderr' = "closed"
    /\ WaiterAfterRun
    /\ UNCHANGED <<connVars, writerVars, cmdPc, retCause, isClosed, execCmd,
                   rcloneConfigPath, afterRun, sessChClosed,
                   stdinWritten, childVars, relayPc, relayBuf>>

\* ------------------------------------------ the outputReader goroutines
\* the handle outputReader r reads from: stdout.Read(buf), whatever its
\* output argument
RelayHandle(r) == stdout
\* the name of the child's stream whose bytes outputReader r therefore holds
\* after a read: line 316 names the variable stdout for both goroutines
RelayStream(r) == "stdout"

\* n, err := stdout.Read(buf) returns a chunk; then
\* `if atomic.LoadUint32(&isClosed) > 0 { return }`, then on to the send of
\* the ResponseDataCmd (a send on the closed channel panics)
RelayRead(r) ==
    /\ Alive /\ relayPc[r] = "read"
    /\ RelayHandle(r) = "open" /\ stdoutBuf # <<>>
    /\ relayBuf' = [relayBuf EXCEPT ![r] = Head(stdoutBuf)]
    /\ stdoutBuf' = Tail(stdoutBuf)
    /\ IF isClosed > 0
       THEN relayPc' = [relayPc EXCEPT ![r] = "done"] /\ UNCHANGED <<panicked, srvVars>>
       ELSE relayPc' = [relayPc EXCEPT ![r] = "send"] /\ Panics(sessChClosed)
    /\ UNCHANGED <<connVars, writerVars, sessVars, childState, exitCode, started,
                   nOut, nErr, waiterPc>>

\* n, err := stdout.Read(buf) returns an error, and the goroutine returns:
\* the handle is closed, or the pipe is drained and its write end gone.
\* Both conditions are permanent and leave the goroutine no other step, so
\* its return is this state predicate rather than a step of its own.
RelayReadFails(r) ==
    \/ RelayHandle(r) # "open"
    \/ stdoutBuf = <<>> /\ childState \in {"exited", "failed"}
RelayReturned(r) ==
    \/ relayPc[r] = "done"
    \/ relayPc[r] = "read" /\ RelayReadFails(r)

\* ------------------------------------------------------- specifications
Next ==
    \/ ConnReadLine \/ ConnReadEnd
    \/ \E r \in Relays : WriterRecvResponse(r)
    \/ WriterRecvTerminate \/ WriterRecvClosed \/ WriterCtxDone
    \/ RecvInitKodoFS \/ RecvInitKodo \/ RecvRequestData
    \/ RecvClosed \/ RecvCtxDone
    \/ CmdSetClosed \/ CmdCloseStdio \/ CmdCloseOut
    \/ ChildWriteStdout \/ ChildWriteStderr \/ ChildExit
    \/ WaiterStart \/ WaiterRunReturns
    \/ \E r \in Relays : RelayRead(r)

Spec == Init /\ [][Next]_vars

\* The steps the Go scheduler and the connection's deadline guarantee: every
\* runnable goroutine runs, and scanner.Scan() returns.  What the peer sends
\* and what the child does of itself are left free.
ConnStep == ConnReadEnd
WriterStep ==
    \/ \E r \in Relays : WriterRecvResponse(r)
    \/ WriterRecvTerminate \/ WriterRecvClosed \/ WriterCtxDone
CmdStep ==
    \/ RecvInitKodoFS \/ RecvInitKodo \/ RecvRequestData \/ RecvClosed \/ RecvCtxDone
    \/ CmdSetClosed \/ CmdCloseStdio \/ CmdCloseOut
WaiterStep == WaiterStart \/ WaiterRunReturns
RelayStep(r) == RelayRead(r)

Fairness ==
    /\ WF_vars(ConnStep) /\ WF_vars(WriterStep) /\ WF_vars(CmdStep)
    /\ WF_vars(WaiterStep)
    /\ \A r \in Relays : WF_vars(RelayStep(r))

FairSpec == Spec /\ Fairness

\* ------------------------------------------------- main's accept loop
\* conn, err := socket.Accept() returns a further connection: main sets its
\* deadline, makes its two channels and starts its handleConn and handleCmd
AcceptConn ==
    /\ Alive /\ acceptLoop = "accepting"
    /\ others < MaxOthers
    /\ others' = others + 1
    /\ UNCHANGED <<connVars, writerVars, sessVars, childVars, goVars, acceptLoop>>

\* socket.Accept() returns an error: it is logged and the loop continues
AcceptError ==
    /\ Alive /\ acceptLoop = "accepting"
    /\ UNCHANGED vars

\* the goroutines of one of the further connections have all returned
OtherConnEnds ==
    /\ Alive /\ others > 0
    /\ others' = others - 1
    /\ UNCHANGED <<connVars, writerVars, sessVars, childVars, goVars, acceptLoop>>

\* the daemon: this connection's goroutines beside the accept loop and the
\* further connections it accepts
ServerNext == Next \/ AcceptConn \/ AcceptError \/ OtherConnEnds

ServerSpec == Init /\ [][ServerNext]_vars

\* ================================================================ claims
TermIdx == {i \in 1 .. Len(emitted) : emitted[i].type = "TerminateCmd"}
RespIdx == {i \in 1 .. Len(emitted) : emitted[i].type = "ResponseDataCmd"}
TermCount == Cardinality(TermIdx)
HandlesClosed == stdin = "closed" /\ stdout = "closed" /\ stderr = "closed"
HandlesOpen == stdin = "open" /\ stdout = "open" /\ stderr = "open"

\* C1: in the sequence of events emitted on the session channel, every
\* ResponseDataCmd comes before the TerminateCmd and no event follows the
\* TerminateCmd.  (Stated as claimed; the code violates it: an outputReader
\* that has passed its closed-flag test sends after the waiter.)
C1_TerminateIsLast ==
    \A i \in TermIdx : i = Len(emitted)

\* C2: closing a session never panics: no goroutine sends on the session
\* channel after handleCmd has closed it.  (Stated as claimed; the code
\* violates it: a goroutine at its send when handleCmd closes the channel.)
C2_PanicFree == ~panicked

\* C3: at most one child process is ever started on a connection, and an
\* init command received when a process is already associated with the
\* session is rejected (handleCmd returns) and starts none.
C3_AtMostOneProcess ==
    /\ started <= 1
    /\ (retCause = "dup" => cmdPc # "select")
C3_Witness == retCause = "dup" /\ started = 1 /\ childState = "running"

\* C4 as claimed: a rejected second init command leaves the existing
\* session untouched: the closed flag stays clear, the session channel
\* stays open and, while the waiter has not yet seen the process end, the
\* three handles stay open and the context is not cancelled.
C4_SessionUntouched ==
    retCause = "dup" =>
        /\ isClosed = 0 /\ ~sessChClosed
        /\ (waiterPc \in {"run", "wait"} => HandlesOpen /\ ~ctxCancelled)

\* C4 as amended: a rejected second init command starts no process and adds
\* no TerminateCmd, but it ends the existing session: handleCmd returns and
\* its close path sets the closed flag, then closes the three handles, then
\* cancels the context and closes the session channel.
C4_DupInitEndsSession ==
    retCause = "dup" =>
        /\ started <= 1 /\ TermCount <= 1
        /\ cmdPc # "select"
        /\ (cmdPc \in {"closeStdio", "closeOut", "done"} => isClosed = 1)
        /\ (cmdPc \in {"closeOut", "done"} => HandlesClosed)
        /\ (cmdPc = "done" => ctxCancelled /\ sessChClosed)
C4_Witness ==
    /\ retCause = "dup" /\ cmdPc = "done" /\ started = 1
    /\ isClosed = 1 /\ HandlesClosed /\ TermCount = 0

\* C5 as claimed: once the child has terminated and the exit waiter has
\* finished, exactly one TerminateCmd has been emitted.
C5_ExactlyOneTerminate ==
    (childState = "exited" /\ waiterPc = "done") => TermCount = 1

\* C5 as amended: at most one TerminateCmd is emitted; an emitted
\* TerminateCmd comes from the finished waiter and carries the child's exit
\* code (-1 when the process never started); and the waiter finishes
\* without emitting one only when it found the closed flag set.
C5_AtMostOneTerminate ==
    /\ TermCount <= 1
    /\ \A i \in TermIdx :
          /\ waiterPc = "done" /\ childState \in {"exited", "failed"}
          /\ emitted[i].code = (IF childState = "exited" THEN exitCode ELSE -1)
    /\ (waiterPc = "done" /\ TermCount = 0 => isClosed = 1)
C5_Witness ==
    /\ TermCount = 1 /\ childState = "exited" /\ exitCode = 2
    /\ waiterPc = "done"

\* C6: once the child has exited and the waiter has run its cleanup, no
\* rclone config file written on this connection exists any more.  (Stated
\* as claimed; the code violates it when a second init command writes a
\* config file.)
C6_ConfigFilesRemoved ==
    (childState = "exited" /\ waiterPc = "done") => files = {}

\* C7: after a line that fails to decode, no command from it is put up for
\* handleCmd, the inbound loop has stopped reading and closed the decode
\* channel, and the teardown this causes does not crash the daemon.
\* (Stated as claimed; the no-crash part fails through the panic of C2.)
C7_ProtocolErrorTeardown ==
    connCause = "protocol" =>
        /\ pending = NoCmd /\ connPc = "wait" /\ decodeChClosed /\ connCtxDone
        /\ (retCause = "chanclosed" => ~panicked)

\* C8: a RequestDataCmd received before any init command is rejected: no
\* process is started, nothing is written to a child, nothing panics, and
\* the connection is then terminated: handleCmd and handleConn return and
\* the socket is closed.  (Stated as claimed; the code violates the last
\* part when the peer sends a further command.)
C8_RequestBeforeInit ==
    /\ [](retCause = "nostdin" => started = 0 /\ stdinWritten = <<>> /\ ~panicked)
    /\ (retCause = "nostdin" ~> (sockClosed /\ HandleConnReturned /\ cmdPc = "done"))

\* C9: once the session has ended, by the emitted TerminateCmd or by a
\* duplicate init command, the daemon eventually closes the socket (a crash
\* apart).  (Stated as claimed; the code violates it when the peer sends a
\* further command.)
C9_SessionEndClosesSocket ==
    ((TermCount = 1 /\ childState = "exited") \/ retCause = "dup")
        ~> (sockClosed \/ panicked)

\* C10: the ResponseDataCmd events are emitted in the order the child wrote
\* their chunks to its standard output.  (Stated as claimed; the code
\* violates it: both outputReader goroutines read the stdout pipe.)
C10_StdoutOrder ==
    \A i, j \in RespIdx : i < j => emitted[i].data < emitted[j].data

\* C11: each stream of the child has its own relay loop: the outputReader
\* started for a stream relays that stream's chunks, and a chunk of stderr
\* goes out as a ResponseDataCmd with isError TRUE, a chunk of stdout with
\* isError FALSE.  (Stated as claimed; the code violates it: the goroutine
\* started for stderr reads the stdout pipe and is passed isError false, so
\* no chunk of stderr is ever relayed.)
C11_StreamsRelayedApart ==
    \A r \in Relays :
        relayPc[r] = "send" =>
            /\ RelayStream(r) = r
            /\ RelayIsError(r) = (r = "stderr")

\* the bytes of the requests 2, 3, ... in the order the peer sent them
\* (the k-th line of a connection carries the data k)
RequestsInOrder(n) == [i \in 1 .. n |-> i + 1]

\* the number of lines read that have not reached handleCmd: the command
\* handleConn is still handing over, and the line that ended the reading
LinesNotDelivered ==
    (IF connPc = "send" THEN 1 ELSE 0) + (IF connCause = "protocol" THEN 1 ELSE 0)

\* C12: after a successful init the bytes of the RequestDataCmd commands are
\* written to the child's stdin verbatim and in the order received: what has
\* been written is always the requests 2, 3, ... in order, without a
\* repetition or a gap, and while the session loop is running none of the
\* requests handed to it is missing.
C12_StdinInOrder ==
    /\ stdinWritten = RequestsInOrder(Len(stdinWritten))
    /\ (cmdPc = "select" /\ execCmd = "set") =>
            Len(stdinWritten) = nlines - 1 - LinesNotDelivered

\* two requests written after an init, the session loop still running
C12_Witness ==
    /\ stdinWritten = <<2, 3>>
    /\ cmdPc = "select" /\ execCmd = "set"

\* C13: with two or more connections open, whatever happens on one of them
\* (a disconnect, a protocol error, a failure of its child) leaves the other
\* connections as they are and the accept loop accepting: no step of this
\* connection's goroutines changes either.  (Stated as claimed; the code
\* violates it through the panic of C2, which ends the whole process.)
C13_ConnectionsIsolated == [][Next => UNCHANGED srvVars]_vars

\* C14: the writer goroutine stops when the session's outbound channel is
\* closed: once it has received from the closed channel it has returned,
\* it does not go on receiving.  (Stated as claimed; the code violates it:
\* the receive yields nil, no case of the type switch matches and the loop
\* selects again, until ctx.Done().)
C14_WriterStopsOnClose == busyPolled => writerPc = "done"

\* the connection has entered Closing: the inbound loop has ended (EOF, read
\* error, deadline, protocol error) or the session has ended
Closing == connCause # "none" \/ cmdPc = "done"

\* every goroutine of the connection has returned.  The exit waiter is let
\* off while the child is still running: whether the cancelled context kills
\* the child is decided by protocol's ExecCommand.
AllReturned ==
    /\ HandleConnReturned
    /\ cmdPc = "done"
    /\ \/ waiterPc \in {"none", "done"}
       \/ waiterPc = "wait" /\ childState = "running"
    /\ \A r \in Relays : relayPc[r] = "none" \/ RelayReturned(r)

\* C15: no goroutine leak: once the connection has entered Closing, every
\* goroutine belonging to it eventually returns (handleConn with its writer,
\* handleCmd, both outputReaders, the exit waiter); none stays blocked on a
\* channel for ever.  (Stated as claimed; the code violates it: handleConn
\* stays blocked in its send once handleCmd has returned.)
C15_NoGoroutineLeak == Closing ~> (AllReturned \/ panicked)

\* C16: the connection is closed only by the writer goroutine as it returns,
\* and nothing is written to it afterwards: the socket is closed exactly
\* when the writer has returned, and from then on it stays closed and the
\* sequence of events written does not grow.
C16_NoWriteAfterClose ==
    /\ [](sockClosed <=> writerPc = "done")
    /\ [][sockClosed => sockClosed' /\ emitted' = emitted]_vars

\* the socket is closed after an event was written, while an outputReader
\* still holds a chunk it wants written
C16_Witness ==
    /\ sockClosed /\ emitted # <<>>
    /\ \E r \in Relays : relayPc[r] = "send"

\* C17: an I/O error on the child's stdio, a failed write of a
\* RequestDataCmd's bytes to its stdin included, does not end the session:
\* handleCmd never returns because of it, and once the child has exited and
\* its waiter is through, the peer has been sent the TerminateCmd.  (Stated
\* as claimed; the code violates it: handleCmd returns on a failed write.)
C17_StdioErrorTolerated ==
    /\ retCause # "writefail"
    /\ (childState = "exited" /\ waiterPc = "done" /\ retCause \in {"none", "ctx", "writefail"})
           => TermCount = 1

\* C18: handleCmd's close path runs in one order on every return: the closed
\* flag is set before the path closes a handle, and the outbound channel is
\* closed only after the three handles are closed.
C18_ClosePathOrder ==
    /\ cmdPc \in {"select", "setClosed"} => isClosed = 0 /\ ~sessChClosed
    /\ cmdPc \in {"closeStdio", "closeOut", "done"} => isClosed = 1
    /\ cmdPc \in {"closeOut", "done"} =>
           stdin # "open" /\ stdout # "open" /\ stderr # "open"
    /\ sessChClosed <=> cmdPc = "done"

\* handleCmd is between closing the handles and closing the channel, after
\* a child was started: flag set, handles closed, channel still open
C18_Witness ==
    /\ cmdPc = "closeOut" /\ started = 1
    /\ isClosed = 1 /\ HandlesClosed /\ ~sessChClosed

\* this session's rclone config file is registered for removal and
\* handleCmd is still in its loop, so rcloneConfigPath names that file
ConfigRegistered == afterRun = "remove" /\ retCause = "none"

\* C19 as claimed: when the child terminates the waiter first emits the
\* TerminateCmd and runs the registered cleanup after it: as long as no
\* TerminateCmd has been emitted, the config file is still there.
C19_TerminateBeforeCleanup ==
    (ConfigRegistered /\ childState = "exited" /\ TermCount = 0) =>
        rcloneConfigPath \in files

\* C19, amended: the waiter runs the registered cleanup first, then sends
\* the TerminateCmd, and cancels the session context last: the config file
\* is gone once the waiter is at its send or through, a TerminateCmd emitted
\* finds the context cancelled, and before handleCmd's own cancel the
\* context is not cancelled while the waiter is still on its way.
C19_CleanupBeforeTerminate ==
    /\ (ConfigRegistered /\ waiterPc \in {"send", "done"}) =>
            rcloneConfigPath \notin files
    /\ TermCount >= 1 => waiterPc = "done" /\ ctxCancelled
    /\ (waiterPc \in {"run", "wait", "send"} /\ cmdPc # "done") => ~ctxCancelled

\* the waiter is about to send the TerminateCmd and the config file has
\* already been removed
C19_Witness ==
    /\ ConfigRegistered /\ childState = "exited"
    /\ waiterPc = "send" /\ TermCount = 0
    /\ files = {} /\ ~ctxCancelled /\ ~panicked

\* C20: the hand-off of a decoded command to the session never blocks for
\* ever: whenever handleConn is at its send, the send eventually completes
\* or handleConn otherwise leaves it.  (Stated as claimed; the code violates
\* it: once handleCmd has returned nobody receives, and the send is not a
\* select with ctx.Done().)
C20_HandOffCompletes == (connPc = "send") ~> (connPc # "send" \/ panicked)

====
